---------------------------- MODULE Spec2Model ----------------------------
(***************************************************************************)
(* Model of recommendation_system.py: the Streamlit script that loads four *)
(* pickled artifacts, shows the popular books (Home), answers "similar      *)
(* book" queries through a fitted nearest-neighbour index (Recommender)     *)
(* and shows a static text (About).                                         *)
(*                                                                         *)
(* Positions are 1-based here (Python's are 0-based); nothing below depends *)
(* on the base.  A DataFrame is a record [loaded, rows, cols]; an artifact  *)
(* whose load failed (Python None) has loaded = FALSE.                      *)
(***************************************************************************)
EXTENDS Integers, Sequences, FiniteSets

VARIABLES
    popular_books,        \* line 21: top_20_books.pkl, or None
    books,                \* line 22: top_books.pkl, or None
    model_knn,            \* line 23: model_knn.pkl, or None
    final_ratings_pivot,  \* line 24: ratings_pivot.pkl, or None
    selected_book,        \* st.session_state.selected_book: << >> is None, <<i>> is row i
    menu,                 \* the sidebar radio
    book_title,           \* the title last handed to get_recommendations / the text input
    recommendations,      \* what the last get_recommendations call returned
    notices,              \* st.warning / st.error notices of the last script run or call
    run                   \* how the last script run or call went

vars == <<popular_books, books, model_knn, final_ratings_pivot, selected_book,
          menu, book_title, recommendations, notices, run>>

artifacts == <<popular_books, books, model_knn, final_ratings_pivot>>

---------------------------------------------------------------------------
(* Bounds and program constants *)

N_NEIGHBORS == 6
HEAD == 5
NUM_COLUMNS == 4

MaxDist == 1
MaxPopular == 5

Min(a, b) == IF a < b THEN a ELSE b

---------------------------------------------------------------------------
(* Sequences *)

Range(s) == {s[i] : i \in DOMAIN s}

Ident(n) == [i \in 1..n |-> i]

Swap(s, i, j) == [s EXCEPT ![i] = s[j], ![j] = s[i]]

NonDecreasing(s) == \A i \in 1..(Len(s) - 1) : s[i] <= s[i + 1]

---------------------------------------------------------------------------
(* The pickled artifacts (lines 15-24) *)

\* The ratings matrix has fewer rows than the index is asked for, as many, or more.
RowCounts == (N_NEIGHBORS - 1)..(N_NEIGHBORS + 1)
MaxRows == N_NEIGHBORS + 1
\* One ISBN more than the largest matrix holds.
NumISBN == MaxRows + 1
ISBN == 1..NumISBN

BookCols == {"isbn", "book_title", "img_s", "img_m", "img_l"}

EmptyFrame == [loaded |-> TRUE, rows |-> << >>, cols |-> {}]
NoneFrame == [loaded |-> FALSE, rows |-> << >>, cols |-> {}]

\* Different books may carry the same title; row j of the base table is
\* book j, titled "A" or "B" in turn.
TitleOfRow(j) == IF j % 2 = 1 THEN "A" ELSE "B"

BaseBooks ==
    [loaded |-> TRUE,
     rows |-> [j \in 1..NumISBN |-> [isbn |-> j, book_title |-> TitleOfRow(j)]],
     cols |-> BookCols]

\* The books tables explored: the base table, the base table with one row's
\* ISBN replaced (a book missing, a book on two rows, or both), and the base
\* table without the img_s column.
BooksTables ==
    {[BaseBooks EXCEPT !.rows[j].isbn = k] : j \in 1..NumISBN, k \in ISBN}
    \cup {[BaseBooks EXCEPT !.cols = BookCols \ {"img_s"}]}

\* The ratings matrix: its row index, one ISBN per row (a pivot's index is unique).
NonePivot == [loaded |-> FALSE, index |-> << >>]
Pivot(n) == [loaded |-> TRUE, index |-> Ident(n)]

\* The fitted index. For a query row it returns N_NEIGHBORS rows, nearest
\* first, with non-decreasing distances; the query row is at distance 0, so
\* every row returned before it is at distance 0 too. "order" is the rows it
\* returns and "dist" the distances of the rows after the query row.
Profiles == {e \in [1..N_NEIGHBORS -> 0..MaxDist] : e[1] = 0 /\ NonDecreasing(e)}

\* The rows the index returns, nearest first: the first rows of the matrix
\* order, or of the matrix order with one pair of rows exchanged.
Orders(n) == {SubSeq(Swap(Ident(n), i, j), 1, Min(n, N_NEIGHBORS)) : i \in 1..n, j \in 1..n}

NoneKnn == [loaded |-> FALSE, n_samples_fit |-> 0, order |-> << >>, dist |-> << >>]

KnnModels(n) ==
    {[loaded |-> TRUE, n_samples_fit |-> n,
      order |-> p, dist |-> e] : p \in Orders(n), e \in Profiles}

PopularTables == {[loaded |-> TRUE, rows |-> Ident(k), cols |-> BookCols] : k \in 0..MaxPopular}

\* load_pickle: the unpickled object, or an error notice and None.
LoadError == "Error loading file"

load_pickle(file) ==
    IF file.readable
    THEN [value |-> file.content, notices |-> << >>]
    ELSE [value |-> file.none, notices |-> <<LoadError>>]

File(content, none) == [readable |-> TRUE, content |-> content, none |-> none]
Missing(none) == [readable |-> FALSE, content |-> none, none |-> none]

---------------------------------------------------------------------------
(* DataFrame and index operations used by get_recommendations *)

TitleNotFound == "Book title not found in the database."
IsbnNotFound == "ISBN not found in the ratings data."
NotEnough == "Not enough similar books found."
ErrorGenerating == "Error generating recommendations"

\* line 40 without the test: every title passes
TitleInBooksUnchecked(bk, title) == TRUE

\* line 40: book_title in books['book_title'].values
TitleInBooks(bk, title) == \E i \in DOMAIN bk.rows : bk.rows[i].book_title = title

\* line 45: books[books['book_title'] == book_title]['isbn'].iloc[0]
MatchingRows(bk, title) == SelectSeq(bk.rows, LAMBDA r : r.book_title = title)

\* line 45 with .iloc[-1]
ResolveIsbnLast(bk, title) == MatchingRows(bk, title)[Len(MatchingRows(bk, title))].isbn

ResolveIsbn(bk, title) == MatchingRows(bk, title)[1].isbn

\* line 48: isbn in final_ratings_pivot.index
InIndex(pv, isbn) == \E i \in DOMAIN pv.index : pv.index[i] = isbn

\* line 53: final_ratings_pivot.index.get_loc(isbn)
get_loc(pv, isbn) == CHOOSE i \in DOMAIN pv.index : pv.index[i] = isbn

PositionIn(s, x) == IF x \in Range(s) THEN CHOOSE i \in DOMAIN s : s[i] = x ELSE 0

\* lines 56-59: model_knn.kneighbors(row, n_neighbors=6); it raises ValueError
\* when asked for more neighbours than the rows it was fitted on.
kneighbors(knn, row, n_neighbors) ==
    IF n_neighbors > knn.n_samples_fit
    THEN [raised |-> TRUE, indices |-> << >>, distances |-> << >>]
    ELSE LET pos == PositionIn(knn.order, row) IN
         [raised |-> FALSE,
          indices |-> knn.order,
          distances |-> [j \in 1..n_neighbors |->
                            IF pos = 0 \/ j <= pos THEN 0 ELSE knn.dist[j]]]

\* s[1:]
Tail1(s) == SubSeq(s, 2, Len(s))

\* line 62: [final_ratings_pivot.index[i] for i in indices.flatten()[1:]]
NeighborIsbns(pv, indices) == [j \in 1..(Len(indices) - 1) |-> pv.index[indices[j + 1]]]

\* line 65: books[books['isbn'].isin(neighbor_isbns)], a new frame in books' row order
Isin(bk, isbns) == [bk EXCEPT !.rows = SelectSeq(bk.rows, LAMBDA r : r.isbn \in Range(isbns))]

\* line 75: top_books['distance'] = distances, by position
AssignDistance(frame, d) ==
    [frame EXCEPT
       !.rows = [i \in DOMAIN frame.rows |->
                   [isbn |-> frame.rows[i].isbn, book_title |-> frame.rows[i].book_title,
                    distance |-> d[i]]],
       !.cols = frame.cols \cup {"distance"}]

\* line 78: top_books.drop(['img_s', 'img_m'], axis=1, inplace=True)
DroppedCols == {"img_s", "img_m"}
Drop(frame) == [frame EXCEPT !.cols = frame.cols \ DroppedCols]

\* line 81: sort_values('distance'); on these few rows the sort is an
\* insertion sort, which keeps rows of equal distance in their order.
RECURSIVE InsertByDistanceDescending(_, _)
InsertByDistanceDescending(sorted, r) ==
    IF sorted = << >> THEN <<r>>
    ELSE IF sorted[Len(sorted)].distance >= r.distance THEN Append(sorted, r)
    ELSE Append(InsertByDistanceDescending(SubSeq(sorted, 1, Len(sorted) - 1), r),
                sorted[Len(sorted)])

RECURSIVE InsertByDistance(_, _)
InsertByDistance(sorted, r) ==
    IF sorted = << >> THEN <<r>>
    ELSE IF sorted[Len(sorted)].distance <= r.distance THEN Append(sorted, r)
    ELSE Append(InsertByDistance(SubSeq(sorted, 1, Len(sorted) - 1), r),
                sorted[Len(sorted)])

RECURSIVE SortRowsDescending(_)
SortRowsDescending(rows) ==
    IF rows = << >> THEN << >>
    ELSE InsertByDistanceDescending(SortRowsDescending(SubSeq(rows, 1, Len(rows) - 1)),
                                    rows[Len(rows)])

RECURSIVE SortRows(_)
SortRows(rows) ==
    IF rows = << >> THEN << >>
    ELSE InsertByDistance(SortRows(SubSeq(rows, 1, Len(rows) - 1)), rows[Len(rows)])

sort_values_descending(frame) == [frame EXCEPT !.rows = SortRowsDescending(frame.rows)]

sort_values(frame) == [frame EXCEPT !.rows = SortRows(frame.rows)]

\* line 81: .head(5)
head(frame, n) == [frame EXCEPT !.rows = SubSeq(frame.rows, 1, Min(n, Len(frame.rows)))]

---------------------------------------------------------------------------
(* get_recommendations (lines 37-87) *)

Returned(frame, msgs, k, pr) ==
    [raised |-> FALSE, exc |-> "", value |-> frame, notices |-> msgs,
     knn_calls |-> k, pivot_read |-> pr]

Raised(exc, k, pr) ==
    [raised |-> TRUE, exc |-> exc, value |-> EmptyFrame, notices |-> << >>,
     knn_calls |-> k, pivot_read |-> pr]

\* lines 56-83, once the query row is known
Neighbours(bk, pv, knn, book_index) ==
    LET ans == kneighbors(knn, book_index, N_NEIGHBORS) IN
    IF ans.raised THEN Raised("ValueError", 1, TRUE)                    \* line 56
    ELSE IF \E j \in DOMAIN ans.indices : j > 1 /\ ans.indices[j] \notin DOMAIN pv.index
    THEN Raised("IndexError", 1, TRUE)                                  \* line 62
    ELSE
    LET neighbor_isbns == NeighborIsbns(pv, ans.indices)
        top_books == Isin(bk, neighbor_isbns)
        distances == Tail1(ans.distances)
    IN  IF Len(neighbor_isbns) # Len(top_books.rows)
        THEN Returned(EmptyFrame, <<NotEnough>>, 1, TRUE)               \* lines 68-71
        ELSE IF ~(DroppedCols \subseteq top_books.cols)
        THEN Raised("KeyError", 1, TRUE)                                \* line 78
        ELSE Returned(head(sort_values(Drop(AssignDistance(top_books, distances))), HEAD),
                      << >>, 1, TRUE)

\* lines 39-83: the body of the try
TryBody(bk, pv, knn, title) ==
    IF ~bk.loaded THEN Raised("TypeError", 0, FALSE)                    \* line 40
    ELSE IF ~TitleInBooks(bk, title)
    THEN Returned(EmptyFrame, <<TitleNotFound>>, 0, FALSE)              \* lines 40-42
    ELSE IF MatchingRows(bk, title) = << >>
    THEN Raised("IndexError", 0, FALSE)                                 \* line 45
    ELSE IF ~pv.loaded THEN Raised("AttributeError", 0, FALSE)          \* line 48
    ELSE IF ~InIndex(pv, ResolveIsbn(bk, title))
    THEN Returned(EmptyFrame, <<IsbnNotFound>>, 0, TRUE)                \* lines 48-50
    ELSE IF ~knn.loaded THEN Raised("AttributeError", 0, TRUE)          \* line 56
    ELSE Neighbours(bk, pv, knn, get_loc(pv, ResolveIsbn(bk, title)))

\* lines 85-87 with "except KeyError"
ExceptKeyError(out) ==
    IF out.raised /\ out.exc = "KeyError"
    THEN [out EXCEPT !.raised = FALSE, !.exc = "", !.value = EmptyFrame,
                     !.notices = <<ErrorGenerating>>]
    ELSE out

\* lines 85-87: except Exception: st.error(...); return pd.DataFrame()
ExceptException(out) ==
    IF out.raised
    THEN [out EXCEPT !.raised = FALSE, !.exc = "", !.value = EmptyFrame,
                     !.notices = <<ErrorGenerating>>]
    ELSE out

get_recommendations(bk, pv, knn, title) == ExceptException(TryBody(bk, pv, knn, title))

\* The books table after a call, had lines 75 and 78 acted on books itself
BooksAliased(bk, out) ==
    IF out.value.rows # << >> THEN [bk EXCEPT !.cols = out.value.cols] ELSE bk

\* The books table after a call: line 65 builds a new frame, and lines 75
\* and 78 change that frame alone.
BooksAfterCall(bk, out) == bk

---------------------------------------------------------------------------
(* The script run (lines 89-171) *)

Menus == {"Home", "Recommender", "About"}
NoSelection == << >>

\* lines 99-116: the book_index of every Detail button of the grid (0-based)
DetailButtons(pop) ==
    LET num_books == Len(pop.rows)
        num_rows == (num_books + NUM_COLUMNS - 1) \div NUM_COLUMNS
    IN  {i * NUM_COLUMNS + j : i \in 0..(num_rows - 1), j \in 0..(NUM_COLUMNS - 1)}
        \cap 0..(num_books - 1)

\* lines 96-123: TRUE when the Home view raises
HomeRaises(pop, sel) ==
    IF sel = NoSelection
    THEN ~pop.loaded                                       \* line 100: len(None)
    ELSE ~pop.loaded \/ sel[1] + 1 \notin DOMAIN pop.rows  \* line 118: None.iloc, or out of range

\* lines 163-171: TRUE when the summary raises
SummaryRaises(pop) == ~pop.loaded                          \* line 169: len(None)

\* lines 134-149: TRUE when showing the result raises
ShowRaises(frame) ==
    frame.rows # << >> /\ (Len(frame.rows) > HEAD \/ "img_l" \notin frame.cols)

\* TRUE when the run of the view m, without a button pressed, raises
ViewRaises(m, pop, sel) ==
    m = "Home" /\ (HomeRaises(pop, sel) \/ SummaryRaises(pop))

\* lines 21-24 run again in every script run
LoadNotices(pop, bk, knn, pv) ==
    (IF pop.loaded THEN << >> ELSE <<LoadError>>) \o (IF bk.loaded THEN << >> ELSE <<LoadError>>)
    \o (IF knn.loaded THEN << >> ELSE <<LoadError>>) \o (IF pv.loaded THEN << >> ELSE <<LoadError>>)

\* run: called, get_recommendations was called; repeat, with the title of the
\* call before it; uncaught, an exception ended the run; knn_calls, the calls
\* of kneighbors; pivot_read, final_ratings_pivot was read.
NoCall == [called |-> FALSE, repeat |-> FALSE, uncaught |-> FALSE, knn_calls |-> 0,
           pivot_read |-> FALSE]

---------------------------------------------------------------------------
(* Initial states: the artifacts loaded and the first run of the script *)

BaseKnn(n) ==
    [loaded |-> TRUE, n_samples_fit |-> n, order |-> SubSeq(Ident(n), 1, Min(n, N_NEIGHBORS)),
     dist |-> [j \in 1..N_NEIGHBORS |-> Min(j - 1, MaxDist)]]

\* The ratings matrix and the index fitted on it, each loaded or not.
PivotKnnFiles ==
    UNION {{<<File(Pivot(n), NonePivot), kf>> :
               kf \in {File(k, NoneKnn) : k \in KnnModels(n)} \cup {Missing(NoneKnn)}} :
           n \in RowCounts}
    \cup {<<Missing(NonePivot), kf>> :
               kf \in {File(BaseKnn(MaxRows), NoneKnn), Missing(NoneKnn)}}

BooksFiles == {File(b, NoneFrame) : b \in BooksTables} \cup {Missing(NoneFrame)}

PopularFiles == {File(p, NoneFrame) : p \in PopularTables} \cup {Missing(NoneFrame)}

InitWith(PopFiles, BookFiles, PivotKnnPairs) ==
    \E pf \in PopFiles, bf \in BookFiles, pk \in PivotKnnPairs :
        /\ popular_books = load_pickle(pf).value
        /\ books = load_pickle(bf).value
        /\ model_knn = load_pickle(pk[2]).value
        /\ final_ratings_pivot = load_pickle(pk[1]).value
        /\ selected_book = NoSelection
        /\ menu = "Home"
        /\ book_title = ""
        /\ recommendations = EmptyFrame
        /\ notices = load_pickle(pf).notices \o load_pickle(bf).notices
                     \o load_pickle(pk[2]).notices \o load_pickle(pk[1]).notices
        /\ run = [NoCall EXCEPT !.uncaught = ViewRaises("Home", load_pickle(pf).value, NoSelection)]

---------------------------------------------------------------------------
(* get_recommendations called on its own *)

QueryTitles == {"A", "B", "Z"}

\* recommendations = get_recommendations(book_title)
Call(title) ==
    LET out == get_recommendations(books, final_ratings_pivot, model_knn, title) IN
    /\ book_title' = title
    /\ recommendations' = out.value
    /\ notices' = out.notices
    /\ run' = [called |-> TRUE, repeat |-> run.called /\ book_title = title,
               uncaught |-> out.raised,
               knn_calls |-> out.knn_calls, pivot_read |-> out.pivot_read]
    /\ books' = BooksAfterCall(books, out)
    /\ UNCHANGED <<popular_books, model_knn, final_ratings_pivot, selected_book, menu>>

Init == InitWith({File([loaded |-> TRUE, rows |-> Ident(MaxPopular), cols |-> BookCols], NoneFrame)},
                 BooksFiles, PivotKnnFiles)

Next == \E title \in QueryTitles : Call(title)

Spec == Init /\ [][Next]_vars

\* The same calls on a books table that holds every ISBN on exactly one row.
InitConsistent ==
    InitWith({File([loaded |-> TRUE, rows |-> Ident(MaxPopular), cols |-> BookCols], NoneFrame)},
             {File(BaseBooks, NoneFrame)}, PivotKnnFiles)

SpecConsistent == InitConsistent /\ [][Next]_vars

---------------------------------------------------------------------------
(* The page: every user action reruns the script (lines 89-171) *)

TypedTitles == {"", "A", "Z"}

\* line 94 with the selection cleared when the view changes
NavigateResetting(m) ==
    /\ m # menu
    /\ menu' = m
    /\ selected_book' = NoSelection
    /\ book_title' = ""
    /\ recommendations' = EmptyFrame
    /\ notices' = LoadNotices(popular_books, books, model_knn, final_ratings_pivot)
    /\ run' = [NoCall EXCEPT !.uncaught = ViewRaises(m, popular_books, NoSelection)]
    /\ UNCHANGED artifacts

\* line 94: the user picks another view; session state is kept, the text
\* input of the Recommender view is built anew.
Navigate(m) ==
    /\ m # menu
    /\ menu' = m
    /\ book_title' = ""
    /\ recommendations' = EmptyFrame
    /\ notices' = LoadNotices(popular_books, books, model_knn, final_ratings_pivot)
    /\ run' = [NoCall EXCEPT !.uncaught = ViewRaises(m, popular_books, selected_book)]
    /\ UNCHANGED <<artifacts, selected_book>>

\* lines 113-115: a Detail button of the grid, then the rerun shows the detail view
ClickDetail(book_index) ==
    /\ menu = "Home"
    /\ selected_book = NoSelection
    /\ popular_books.loaded
    /\ book_index \in DetailButtons(popular_books)
    /\ selected_book' = <<book_index>>
    /\ notices' = LoadNotices(popular_books, books, model_knn, final_ratings_pivot)
    /\ run' = [NoCall EXCEPT !.uncaught = ViewRaises("Home", popular_books, <<book_index>>)]
    /\ UNCHANGED <<artifacts, menu, book_title, recommendations>>

\* lines 121-123: Go Back, then the rerun shows the grid
GoBack ==
    /\ menu = "Home"
    /\ selected_book # NoSelection
    /\ ~HomeRaises(popular_books, selected_book)
    /\ selected_book' = NoSelection
    /\ notices' = LoadNotices(popular_books, books, model_knn, final_ratings_pivot)
    /\ run' = [NoCall EXCEPT !.uncaught = ViewRaises("Home", popular_books, NoSelection)]
    /\ UNCHANGED <<artifacts, menu, book_title, recommendations>>

\* lines 128-149: Submit with the title typed
Submit(title) ==
    /\ menu = "Recommender"
    /\ book_title' = title
    /\ IF title # ""
       THEN LET out == get_recommendations(books, final_ratings_pivot, model_knn, title) IN
            /\ recommendations' = out.value
            /\ notices' = LoadNotices(popular_books, books, model_knn, final_ratings_pivot)
                          \o out.notices
            /\ run' = [called |-> TRUE, repeat |-> run.called /\ book_title = title,
                       uncaught |-> out.raised \/ ShowRaises(out.value),
                       knn_calls |-> out.knn_calls, pivot_read |-> out.pivot_read]
            /\ books' = BooksAfterCall(books, out)
       ELSE /\ recommendations' = EmptyFrame
            /\ notices' = LoadNotices(popular_books, books, model_knn, final_ratings_pivot)
            /\ run' = NoCall
            /\ books' = books
    /\ UNCHANGED <<popular_books, model_knn, final_ratings_pivot, selected_book, menu>>

InitApp ==
    InitWith(PopularFiles,
             {File(BaseBooks, NoneFrame), Missing(NoneFrame)},
             {<<File(Pivot(MaxRows), NonePivot), File(BaseKnn(MaxRows), NoneKnn)>>,
              <<File(Pivot(MaxRows), NonePivot), Missing(NoneKnn)>>,
              <<Missing(NonePivot), File(BaseKnn(MaxRows), NoneKnn)>>})

NextApp ==
    \/ \E m \in Menus : Navigate(m)
    \/ \E i \in 0..(MaxPopular - 1) : ClickDetail(i)
    \/ GoBack
    \/ \E title \in TypedTitles : Submit(title)

SpecApp == InitApp /\ [][NextApp]_vars

---------------------------------------------------------------------------
(* Properties *)

\* What the properties say of the last call, stated without the operators
\* of get_recommendations.
TitlePresent ==
    books.loaded /\ \E i \in DOMAIN books.rows : books.rows[i].book_title = book_title

FirstRowWithTitle ==
    CHOOSE i \in DOMAIN books.rows :
        /\ books.rows[i].book_title = book_title
        /\ \A k \in 1..(i - 1) : books.rows[k].book_title # book_title

QueriedIsbn == books.rows[FirstRowWithTitle].isbn

InMatrix(isbn) ==
    final_ratings_pivot.loaded
    /\ \E i \in DOMAIN final_ratings_pivot.index : final_ratings_pivot.index[i] = isbn

\* The call reached the comparison of line 68.
IndexAnswered ==
    /\ run.called /\ TitlePresent /\ InMatrix(QueriedIsbn)
    /\ model_knn.loaded /\ model_knn.n_samples_fit >= N_NEIGHBORS

QueryRow == CHOOSE i \in DOMAIN final_ratings_pivot.index :
                final_ratings_pivot.index[i] = QueriedIsbn

Answer == kneighbors(model_knn, QueryRow, N_NEIGHBORS)

\* The ISBN and the distance of the j-th row of the index's answer
AnswerIsbn(j) == final_ratings_pivot.index[Answer.indices[j]]
AnswerDistance(j) == Answer.distances[j]

Result == recommendations.rows

\* C1: for a title of the books table whose ISBN is a row of the ratings
\* matrix, the call returns at most 5 records and none of them is the
\* queried book.
C1_AtMostFiveNoneTheQuery ==
    (run.called /\ TitlePresent /\ InMatrix(QueriedIsbn)) =>
        /\ Len(Result) <= 5
        /\ \A i \in DOMAIN Result : Result[i].isbn # QueriedIsbn

\* C2: in a non-empty result, the distance of every record is the distance
\* the index computed for the neighbour with the record's ISBN.
C2_DistanceOfOwnBook ==
    (run.called /\ Result # << >>) =>
        \A i \in DOMAIN Result :
            \E j \in 2..N_NEIGHBORS :
                AnswerIsbn(j) = Result[i].isbn /\ AnswerDistance(j) = Result[i].distance

\* C3: every result is sorted by non-decreasing distance: of two
\* consecutive records the earlier has the smaller or equal distance.
C3_SortedByDistance ==
    \A i \in 1..(Len(Result) - 1) : Result[i].distance <= Result[i + 1].distance

C3_Witness ==
    /\ run.called /\ Len(Result) = 5
    /\ \E i \in 1..(Len(Result) - 1) : Result[i].distance < Result[i + 1].distance

\* C4: for a title that is not in the books table, the call returns an empty
\* result with the "title not found" warning, and neither calls the index
\* nor reads the ratings matrix.
C4_AbsentTitle ==
    (run.called /\ books.loaded /\ ~TitlePresent) =>
        /\ recommendations = EmptyFrame
        /\ notices = <<TitleNotFound>>
        /\ run.knn_calls = 0
        /\ ~run.pivot_read
        /\ ~run.uncaught

C4_Witness ==
    /\ run.called /\ books.loaded /\ ~TitlePresent
    /\ final_ratings_pivot.loaded /\ model_knn.loaded
    /\ notices = <<TitleNotFound>>

\* C5: for a title of the books table whose ISBN (that of the first row
\* with the title) is no row of the ratings matrix, the call returns an
\* empty result with the "ISBN not found" warning and does not call the index.
C5_IsbnNotInMatrix ==
    (run.called /\ TitlePresent /\ final_ratings_pivot.loaded /\ ~InMatrix(QueriedIsbn)) =>
        /\ recommendations = EmptyFrame
        /\ notices = <<IsbnNotFound>>
        /\ run.knn_calls = 0
        /\ ~run.uncaught

\* The first row with the title is not in the matrix and a later row with it is.
C5_Witness ==
    /\ run.called /\ TitlePresent /\ final_ratings_pivot.loaded /\ ~InMatrix(QueriedIsbn)
    /\ \E i \in DOMAIN books.rows :
           books.rows[i].book_title = book_title /\ InMatrix(books.rows[i].isbn)
    /\ model_knn.loaded
    /\ notices = <<IsbnNotFound>>

\* C6: when the number of neighbour ISBNs differs from the number of books
\* rows carrying them, the call reports "not enough" and returns an empty
\* result; and when it returns a non-empty list, every neighbour ISBN is on
\* exactly one returned row.
C6_NoMisalignedList ==
    IndexAnswered =>
        LET matching == {i \in DOMAIN books.rows :
                            \E j \in 2..N_NEIGHBORS : books.rows[i].isbn = AnswerIsbn(j)}
        IN  /\ Cardinality(matching) # N_NEIGHBORS - 1 =>
                (recommendations = EmptyFrame /\ notices = <<NotEnough>>)
            /\ Result # << >> =>
                \A j \in 2..N_NEIGHBORS :
                    Cardinality({i \in DOMAIN Result : Result[i].isbn = AnswerIsbn(j)}) = 1

\* C7: no exception leaves get_recommendations: whatever the title and the
\* artifacts, the call returns a result, or an empty result with a notice,
\* and calls the index at most once.
C7_NoExceptionEscapes ==
    run.called =>
        /\ ~run.uncaught
        /\ run.knn_calls <= 1
        /\ (Result = << >> => (recommendations = EmptyFrame /\ notices # << >>))
        /\ (Result # << >> => notices = << >>)

\* The index was fitted on fewer rows than it is asked for, and the call
\* ended with the error notice.
C7_Witness ==
    /\ run.called /\ run.knn_calls = 1
    /\ model_knn.loaded /\ model_knn.n_samples_fit < N_NEIGHBORS
    /\ recommendations = EmptyFrame /\ notices = <<ErrorGenerating>>

\* C8: an artifact that failed to load gives an error notice, and every
\* script run ends without an uncaught exception.
C8_LoadFailureDegrades ==
    /\ (~popular_books.loaded \/ ~books.loaded \/ ~model_knn.loaded
          \/ ~final_ratings_pivot.loaded) => (notices # << >> /\ notices[1] = LoadError)
    /\ ~run.uncaught

\* C9: once the user has left Home for another view, selected_book is None.
C9_SelectionResetOnNavigation ==
    menu # "Home" => selected_book = NoSelection

\* C9, amended: choosing another view leaves selected_book as it is;
\* selected_book changes only within Home (Detail sets it, Go Back clears it).
C9_SelectionKeptOnNavigation ==
    [][/\ menu' # menu => selected_book' = selected_book
       /\ selected_book' # selected_book => (menu = "Home" /\ menu' = "Home")]_vars

C9_Witness ==
    menu # "Home" /\ selected_book # NoSelection

====
